---- MODULE Spec2Model ----
(***************************************************************************)
(* A model of rust_jit.py: the on-disk build cache keyed by crate name,    *)
(* the cargo invocation, the artifact lookup, the ctypes binding and the   *)
(* wrapper that forwards positional calls to the native function.          *)
(***************************************************************************)
EXTENDS Integers, Sequences, FiniteSets, TLC

VARIABLES
    platform,   \* sys.platform of the host, as a sequence of characters
    layout,     \* where the toolchain of this host leaves the built library
    fs,         \* the temp directory: one workspace per crate name
    pc,         \* per process: the position inside rust_jit(...)(pyfunc)
    req,        \* per process: arguments and locals of the running request
    outcome,    \* per process: what the request returned or raised
    prev,       \* set when the running request repeats the bind completed before it
    call,       \* the last invocation of the returned wrapper
    naming      \* one evaluation of _platform_libname: its argument and result

vars == <<platform, layout, fs, pc, req, outcome, prev, call, naming>>

-----------------------------------------------------------------------------
(* Values.                                                                 *)

NoFile == "<absent>"
NoValue == "<none>"

Procs == {"p1", "p2"}
SeqProcs == {"p1"}

\* The two source units of test.py and a unit that cargo rejects.
SrcAdd == "src:add_i32"
SrcGreet == "src:greet"
SrcBad == "src:broken"
Sources == {SrcAdd, SrcGreet, SrcBad}

FnNames == {"add_i32", "greet"}

\* crate_name argument: "" stands for the default (None is falsy as well).
NameArgs == {"", "foo"}

\* cargo exits 0 on these sources.
Compiles(src) == src \in {SrcAdd, SrcGreet}

\* The #[no_mangle] symbols of a library built from src.
Exports(src) ==
    CASE src = SrcAdd -> {"add_i32"}
      [] src = SrcGreet -> {"greet"}
      [] OTHER -> {}

\* hashlib.sha256(src.encode("utf-8")).hexdigest()[:12] of the units above.
_hash_src(src) ==
    CASE src = SrcAdd -> "f36ae338fd1d"
      [] src = SrcGreet -> "be36a941a983"
      [] OTHER -> "fd30f955c3a9"

\* crate_name = crate_name or f"rustjit_{src_hash}"
CrateName(src, name) == IF name = "" THEN "rustjit_" \o _hash_src(src) ELSE name

Crates == {CrateName(s, n) : s \in Sources, n \in NameArgs}

\* tempdir = Path(tempfile.gettempdir()) / f"rustjit_{crate_name}"
TempDir(crate) == "/tmp/rustjit_" \o crate

-----------------------------------------------------------------------------
(* _platform_libname.                                                      *)

Chars_linux == <<"l", "i", "n", "u", "x">>
Chars_darwin == <<"d", "a", "r", "w", "i", "n">>
Chars_win32 == <<"w", "i", "n", "3", "2">>

\* Values of sys.platform.
Platforms ==
    { Chars_linux, Chars_linux \o <<"2">>, Chars_linux \o <<"-", "r", "i", "s", "c">>,
      Chars_darwin, Chars_win32,
      <<"l", "i", "n">>, <<"w", "i", "n", "6", "4">>,
      <<"c", "y", "g", "w", "i", "n">>, <<"a", "i", "x">>, <<"w", "a", "s", "i">>,
      <<"f", "r", "e", "e", "b", "s", "d", "1", "3">> }

\* The host the requests run on.
HostPlatform == Chars_linux

StartsWith(s, prefix) ==
    /\ Len(s) >= Len(prefix)
    /\ SubSeq(s, 1, Len(prefix)) = prefix

\* The bug of taking every platform named win... for Windows.
_platform_libname_AnyWin(plat, basename) ==
    IF StartsWith(plat, Chars_linux) THEN "lib" \o basename \o ".so"
    ELSE IF plat = Chars_darwin THEN "lib" \o basename \o ".dylib"
    ELSE IF StartsWith(plat, <<"w", "i", "n">>) THEN basename \o ".dll"
    ELSE "lib" \o basename \o ".so"

_platform_libname(plat, basename) ==
    IF StartsWith(plat, Chars_linux) THEN "lib" \o basename \o ".so"
    ELSE IF plat = Chars_darwin THEN "lib" \o basename \o ".dylib"
    ELSE IF plat = Chars_win32 THEN basename \o ".dll"
    ELSE "lib" \o basename \o ".so"

-----------------------------------------------------------------------------
(* Messages: a sequence of literal pieces and decoded characters.          *)

Lit(s) == [lit |-> s]
Cp(n) == [cp |-> n]
Text(cps) == [i \in 1..Len(cps) |-> Cp(cps[i])]

Contains(msg, sub) ==
    \E i \in 0..(Len(msg) - Len(sub)) : SubSeq(msg, i + 1, i + Len(sub)) = sub

\* bytes.decode(errors='ignore') (UTF-8) on bytes below 0xE0 or equal to 0xFF:
\* an ASCII byte is itself, a lead byte 0xC2..0xDF followed by a continuation
\* byte is one two-byte character, every other byte is dropped.
IsAscii(b) == b < 128
IsLead2(b) == b >= 194 /\ b <= 223
IsCont(b) == b >= 128 /\ b <= 191

RECURSIVE DecodeFrom(_, _)
DecodeFrom(bytes, i) ==
    IF i > Len(bytes) THEN <<>>
    ELSE IF IsAscii(bytes[i]) THEN <<bytes[i]>> \o DecodeFrom(bytes, i + 1)
    ELSE IF IsLead2(bytes[i]) /\ i < Len(bytes) /\ IsCont(bytes[i + 1])
         THEN <<(bytes[i] - 192) * 64 + (bytes[i + 1] - 128)>> \o DecodeFrom(bytes, i + 2)
    ELSE DecodeFrom(bytes, i + 1)

\* e.stdout.decode(errors='ignore') if e.stdout else ""
DecodeIgnore(bytes) == IF bytes = <<>> THEN <<>> ELSE DecodeFrom(bytes, 1)

\* str.encode("utf-8") for code points below 0x800.
RECURSIVE EncodeUtf8(_)
EncodeUtf8(cps) ==
    IF cps = <<>> THEN <<>>
    ELSE (IF Head(cps) < 128 THEN <<Head(cps)>>
          ELSE <<192 + (Head(cps) \div 64), 128 + (Head(cps) % 64)>>)
         \o EncodeUtf8(Tail(cps))

\* What cargo may print on a failed build (raw bytes).
CargoOutputs ==
    { [stdout |-> <<>>, stderr |-> <<69>>],
      [stdout |-> <<79>>, stderr |-> <<195, 169, 69>>],
      [stdout |-> <<79, 195>>, stderr |-> <<69, 255, 169>>] }

-----------------------------------------------------------------------------
(* The workspace on disk.                                                  *)

Primary == "target/release"
Nested == "target/release/deps"
Locs == {Primary, Nested}

\* The toolchain layouts: the set of places a successful build leaves the library.
Layouts == SUBSET Locs

EmptyTarget == [l \in Locs |-> NoFile]

AbsentWorkspace ==
    [dir |-> FALSE, srcdir |-> FALSE, manifest |-> <<>>, src |-> NoFile,
     target |-> EmptyTarget]

\* The text written to Cargo.toml.
Manifest(crate) ==
    [package_name |-> crate, version |-> "0.1.0", edition |-> "2021",
     lib_name |-> crate, crate_type |-> <<"cdylib">>]

\* argtypes and restype: the defaults of rust_jit, and those test.py declares.
DefaultSig == [argtypes |-> <<>>, restype |-> "c_int"]
DeclaredSig(fn) ==
    IF fn = "add_i32" THEN [argtypes |-> <<"c_int", "c_int">>, restype |-> "c_int"]
    ELSE [argtypes |-> <<"c_char_p">>, restype |-> "c_char_p"]
Signatures == {DefaultSig} \cup {DeclaredSig(fn) : fn \in FnNames}

\* cargo_extra_args: None (made [] on entry) or a list of flags.
ExtraArgs == {<<>>, <<"--offline">>}

NoRequest ==
    [rust_src |-> NoValue, fn_name |-> NoValue, crate_name |-> NoValue,
     sig |-> DefaultSig, cargo_extra_args |-> <<>>,
     cargo_on_path |-> FALSE, rebuild |-> TRUE, lib_path |-> NoValue,
     cdll |-> NoValue, builds |-> 0, build_cmd |-> <<>>,
     captured |-> [returncode |-> 0], fs0 |-> NoValue]

NoOutcome == [kind |-> NoValue, msg |-> <<>>]

\* repeat: the running request has the arguments of the bind completed just
\* before it; same_unit: it has the source and crate name of the request
\* completed just before it, which got as far as loading a library; changed:
\* and another symbol, signature or flags; overlap: two requests have been
\* running at the same time.
NoPrev ==
    [repeat |-> FALSE, same_unit |-> FALSE, changed |-> FALSE, overlap |-> FALSE,
     builds |-> 0, absent0 |-> FALSE, lib_path |-> NoValue]

NoNaming == [basename |-> NoValue, libname |-> NoValue]

\* ret: the returned value, if any; native_calls: the argument lists the native
\* function was called with.
NoCall == [args |-> <<>>, kwargs |-> {}, result |-> NoValue, ret |-> <<>>,
           native_calls |-> <<>>]

Init ==
    /\ platform = HostPlatform
    /\ layout \in Layouts
    /\ fs = [c \in Crates |-> AbsentWorkspace]
    /\ pc = [p \in Procs |-> "idle"]
    /\ req = [p \in Procs |-> NoRequest]
    /\ outcome = [p \in Procs |-> NoOutcome]
    /\ prev = NoPrev
    /\ call = NoCall
    /\ naming = NoNaming

Fail(p, kind, msg) ==
    /\ pc' = [pc EXCEPT ![p] = "done"]
    /\ outcome' = [outcome EXCEPT ![p] = [kind |-> kind, msg |-> msg]]

Goto(p, label) ==
    /\ pc' = [pc EXCEPT ![p] = label]
    /\ UNCHANGED outcome

\* The completed request r returned a wrapper and the next one has the same
\* source, symbol, signature and crate name.
Repeats(r, o, src, fn, crate, sig) ==
    /\ o.kind = "Bound"
    /\ r.rust_src = src /\ r.fn_name = fn /\ r.crate_name = crate /\ r.sig = sig

\* The completed request r loaded a library and the next one has the same
\* source and crate name.
SameUnit(r, o, src, crate) ==
    /\ o.kind \in {"Bound", "SymbolNotFound"}
    /\ r.rust_src = src /\ r.crate_name = crate

\* What is remembered of the request completed before the one that starts.
History(p, src, fn, crate, sig, extra) ==
    IF SameUnit(req[p], outcome[p], src, crate)
    THEN [repeat |-> Repeats(req[p], outcome[p], src, fn, crate, sig),
          same_unit |-> TRUE,
          changed |-> (req[p].fn_name # fn \/ req[p].sig # sig
                       \/ req[p].cargo_extra_args # extra),
          overlap |-> prev.overlap,
          builds |-> req[p].builds,
          absent0 |-> ~req[p].fs0[req[p].crate_name].dir,
          lib_path |-> req[p].lib_path]
    ELSE [NoPrev EXCEPT !.overlap = prev.overlap]

\* rust_jit(rust_src, fn_name, argtypes, restype, crate_name, cargo_extra_args)
\* is called: the arguments and the environment (is cargo on PATH) of one
\* bind request.
BeginReq(p, src, fn, name, cargo, sig, extra) ==
    /\ pc[p] \in {"idle", "done"}
    /\ req' = [req EXCEPT ![p] =
                 [NoRequest EXCEPT !.rust_src = src, !.fn_name = fn,
                                   !.crate_name = CrateName(src, name),
                                   !.sig = sig, !.cargo_extra_args = extra,
                                   !.cargo_on_path = cargo,
                                   !.fs0 = fs]]
    /\ prev' = [History(p, src, fn, CrateName(src, name), sig, extra)
                  EXCEPT !.overlap = @ \/ \E q \in Procs \ {p} : pc[q] \notin {"idle", "done"}]
    /\ pc' = [pc EXCEPT ![p] = "ensure_cargo"]
    /\ outcome' = [outcome EXCEPT ![p] = NoOutcome]
    /\ call' = NoCall
    /\ UNCHANGED <<naming, platform, layout, fs>>

\* A request as test.py makes it: the signature of the symbol, no extra flags.
Begin(p, src, fn, name, cargo) ==
    BeginReq(p, src, fn, name, cargo, DeclaredSig(fn), <<>>)

\* The bug of a request that goes on without looking for cargo.
EnsureCargo_Unchecked(p) ==
    /\ pc[p] = "ensure_cargo"
    /\ Goto(p, "mkdir")
    /\ UNCHANGED <<naming, platform, layout, fs, req, prev, call>>

\* _ensure_cargo_exists()
EnsureCargo(p) ==
    /\ pc[p] = "ensure_cargo"
    /\ IF req[p].cargo_on_path
       THEN Goto(p, "mkdir")
       ELSE Fail(p, "ToolchainMissing",
                 <<Lit("cargo (Rust toolchain) not found in PATH. Please install Rust and cargo.")>>)
    /\ UNCHANGED <<naming, platform, layout, fs, req, prev, call>>

\* if not tempdir.exists(): tempdir.mkdir(parents=True, exist_ok=True)
Mkdir(p) ==
    /\ pc[p] = "mkdir"
    /\ fs' = [fs EXCEPT ![req[p].crate_name].dir = TRUE]
    /\ Goto(p, "cache_check")
    /\ UNCHANGED <<naming, platform, layout, req, prev, call>>

\* The bug of a cache test that does not compare the source.
CacheHit_IgnoreSource(ws, src) ==
    /\ ws.src # NoFile
    /\ ws.target[Primary] # NoFile

\* The bug of a cache test that does not look for the library.
CacheHit_IgnoreLibrary(ws, src) ==
    /\ ws.src # NoFile
    /\ ws.src = src

\* The cache test: src/lib.rs exists, equals rust_src, and the library is at
\* target/release/<libname>.
CacheHit(ws, src) ==
    /\ ws.src # NoFile
    /\ ws.src = src
    /\ ws.target[Primary] # NoFile

\* The bug of a reuse path that writes Cargo.toml again.
CacheCheck_WritesManifest(p) ==
    /\ pc[p] = "cache_check"
    /\ IF CacheHit(fs[req[p].crate_name], req[p].rust_src)
       THEN /\ req' = [req EXCEPT ![p].rebuild = FALSE, ![p].lib_path = Primary]
            /\ fs' = [fs EXCEPT ![req[p].crate_name].manifest = <<Manifest(req[p].crate_name)>>]
            /\ Goto(p, "load")
       ELSE /\ req' = req
            /\ fs' = fs
            /\ Goto(p, "write_manifest")
    /\ UNCHANGED <<naming, platform, layout, prev, call>>

CacheCheck(p) ==
    /\ pc[p] = "cache_check"
    /\ IF CacheHit(fs[req[p].crate_name], req[p].rust_src)
       THEN /\ req' = [req EXCEPT ![p].rebuild = FALSE, ![p].lib_path = Primary]
            /\ Goto(p, "load")
       ELSE /\ req' = req
            /\ Goto(p, "write_manifest")
    /\ UNCHANGED <<naming, platform, layout, fs, prev, call>>

\* The bug of a rebuild that keeps the Cargo.toml it finds.
WriteManifest_KeepsOld(p) ==
    /\ pc[p] = "write_manifest"
    /\ fs' = [fs EXCEPT ![req[p].crate_name].srcdir = TRUE]
    /\ Goto(p, "write_src")
    /\ UNCHANGED <<naming, platform, layout, req, prev, call>>

\* (tempdir / "src").mkdir(exist_ok=True); cargo_toml.write_text(...)
WriteManifest(p) ==
    /\ pc[p] = "write_manifest"
    /\ fs' = [fs EXCEPT ![req[p].crate_name].srcdir = TRUE,
                        ![req[p].crate_name].manifest = <<Manifest(req[p].crate_name)>>]
    /\ Goto(p, "write_src")
    /\ UNCHANGED <<naming, platform, layout, req, prev, call>>

\* The bug of a rebuild that keeps a source file it finds.
WriteSrc_IfAbsent(p) ==
    /\ pc[p] = "write_src"
    /\ fs' = [fs EXCEPT ![req[p].crate_name].src =
                 IF @ = NoFile THEN req[p].rust_src ELSE @]
    /\ Goto(p, "build")
    /\ UNCHANGED <<naming, platform, layout, req, prev, call>>

\* src_file.write_text(rust_src)
WriteSrc(p) ==
    /\ pc[p] = "write_src"
    /\ fs' = [fs EXCEPT ![req[p].crate_name].src = req[p].rust_src]
    /\ Goto(p, "build")
    /\ UNCHANGED <<naming, platform, layout, req, prev, call>>

\* The bug of a build that keeps a library it finds in target/release.
CargoBuild_KeepsOld(ws, lay) ==
    IF Compiles(ws.src) /\ ws.target = EmptyTarget
    THEN [ws EXCEPT !.target = [l \in Locs |-> IF l \in lay THEN ws.src ELSE ws.target[l]]]
    ELSE ws

\* What `cargo build --release` leaves in target/release: a successful build
\* of the source on disk puts the library at the places of the layout, a
\* failed build leaves the directory as it was.
CargoBuild(ws, lay) ==
    IF Compiles(ws.src)
    THEN [ws EXCEPT !.target = [l \in Locs |-> IF l \in lay THEN ws.src ELSE ws.target[l]]]
    ELSE ws

\* The bug of a message that leaves stderr out.
CompileFailedMsg_NoStderr(stdout, stderr) ==
    <<Lit("Rust compilation failed.\nSTDOUT:\n")>> \o Text(DecodeIgnore(stdout))

CompileFailedMsg(stdout, stderr) ==
    <<Lit("Rust compilation failed.\nSTDOUT:\n")>> \o Text(DecodeIgnore(stdout))
    \o <<Lit("\nSTDERR:\n")>> \o Text(DecodeIgnore(stderr))

\* build_cmd = ["cargo", "build", "--release"]
BuildCmd(extra) == <<"cargo", "build", "--release">>

\* The bug of running cargo a second time after a failed build.
Build_Retry(p) ==
    /\ pc[p] = "build"
    /\ fs' = [fs EXCEPT ![req[p].crate_name] = CargoBuild(@, layout)]
    /\ IF Compiles(fs[req[p].crate_name].src)
       THEN /\ req' = [req EXCEPT ![p].builds = @ + 1, ![p].build_cmd = BuildCmd(req[p].cargo_extra_args),
                                  ![p].captured = [returncode |-> 0]]
            /\ Goto(p, "resolve")
       ELSE IF req[p].builds = 0
       THEN /\ req' = [req EXCEPT ![p].builds = @ + 1,
                                  ![p].build_cmd = BuildCmd(req[p].cargo_extra_args)]
            /\ Goto(p, "build")
       ELSE \E out \in CargoOutputs :
                /\ req' = [req EXCEPT ![p].builds = @ + 1, ![p].build_cmd = BuildCmd(req[p].cargo_extra_args),
                                      ![p].captured = [returncode |-> 101,
                                                       stdout |-> out.stdout,
                                                       stderr |-> out.stderr]]
                /\ Fail(p, "CompilationFailed", CompileFailedMsg(out.stdout, out.stderr))
    /\ UNCHANGED <<naming, platform, layout, prev, call>>

\* subprocess.run(["cargo", "build", "--release"], cwd=tempdir, check=True, ...)
Build(p) ==
    /\ pc[p] = "build"
    /\ fs' = [fs EXCEPT ![req[p].crate_name] = CargoBuild(@, layout)]
    /\ IF Compiles(fs[req[p].crate_name].src)
       THEN /\ req' = [req EXCEPT ![p].builds = @ + 1, ![p].build_cmd = BuildCmd(req[p].cargo_extra_args),
                                  ![p].captured = [returncode |-> 0]]
            /\ Goto(p, "resolve")
       ELSE \E out \in CargoOutputs :
                /\ req' = [req EXCEPT ![p].builds = @ + 1, ![p].build_cmd = BuildCmd(req[p].cargo_extra_args),
                                      ![p].captured = [returncode |-> 101,
                                                       stdout |-> out.stdout,
                                                       stderr |-> out.stderr]]
                /\ Fail(p, "CompilationFailed", CompileFailedMsg(out.stdout, out.stderr))
    /\ UNCHANGED <<naming, platform, layout, prev, call>>

\* The bug of a lookup without the search below target/release.
Resolve_PrimaryOnly(p) ==
    /\ pc[p] = "resolve"
    /\ IF fs[req[p].crate_name].target[Primary] # NoFile
       THEN /\ req' = [req EXCEPT ![p].lib_path = Primary]
            /\ Goto(p, "load")
       ELSE /\ req' = req
            /\ Fail(p, "ArtifactNotFound",
                    <<Lit("Cannot find the library: "),
                      Lit(_platform_libname(platform, req[p].crate_name)),
                      Lit(" (searched under "),
                      Lit(TempDir(req[p].crate_name) \o "/" \o Primary),
                      Lit(")")>>)
    /\ UNCHANGED <<naming, platform, layout, fs, prev, call>>

\* candidate = target_dir / libname; else found = list(target_dir.rglob(libname))
Resolve(p) ==
    /\ pc[p] = "resolve"
    /\ LET ws == fs[req[p].crate_name]
           found == {l \in Locs : ws.target[l] # NoFile}
       IN  IF ws.target[Primary] # NoFile
           THEN /\ req' = [req EXCEPT ![p].lib_path = Primary]
                /\ Goto(p, "load")
           ELSE IF found # {}
           THEN /\ \E l \in found : req' = [req EXCEPT ![p].lib_path = l]
                /\ Goto(p, "load")
           ELSE /\ req' = req
                /\ Fail(p, "ArtifactNotFound",
                        <<Lit("Cannot find the library: "),
                          Lit(_platform_libname(platform, req[p].crate_name)),
                          Lit(" (searched under "),
                          Lit(TempDir(req[p].crate_name) \o "/" \o Primary),
                          Lit(")")>>)
    /\ UNCHANGED <<naming, platform, layout, fs, prev, call>>

\* cdll = ctypes.CDLL(lib_path): the handle is the library found at lib_path.
Load(p) ==
    /\ pc[p] = "load"
    /\ LET lib == fs[req[p].crate_name].target[req[p].lib_path]
       IN  IF lib # NoFile
           THEN /\ req' = [req EXCEPT ![p].cdll = lib]
                /\ Goto(p, "getattr")
           ELSE /\ req' = req
                /\ Fail(p, "OSError", <<Lit("cannot open shared object file")>>)
    /\ UNCHANGED <<naming, platform, layout, fs, prev, call>>

SymbolHint ==
    "'. Ensure using #[no_mangle] when define the function pub extern \"C\" fn "

\* The bug of a lookup that never fails.
GetSymbol_Unchecked(p) ==
    /\ pc[p] = "getattr"
    /\ pc' = [pc EXCEPT ![p] = "done"]
    /\ outcome' = [outcome EXCEPT ![p] = [kind |-> "Bound", msg |-> <<>>]]
    /\ UNCHANGED <<naming, platform, layout, fs, req, prev, call>>

\* cfn = getattr(cdll, fn_name), then the wrapper is returned.
GetSymbol(p) ==
    /\ pc[p] = "getattr"
    /\ IF req[p].fn_name \in Exports(req[p].cdll)
       THEN /\ pc' = [pc EXCEPT ![p] = "done"]
            /\ outcome' = [outcome EXCEPT ![p] = [kind |-> "Bound", msg |-> <<>>]]
       ELSE Fail(p, "SymbolNotFound",
                 <<Lit("Cannot find the function: '"), Lit(req[p].fn_name),
                   Lit(SymbolHint),
                   Lit(req[p].fn_name), Lit("(...).")>>)
    /\ UNCHANGED <<naming, platform, layout, fs, req, prev, call>>

-----------------------------------------------------------------------------
(* The wrapper returned to the caller, and the native functions it reaches. *)

\* c_int and Rust's i32: 32 bits, two's complement.
I32Max == 2147483647
I32Min == (-I32Max) - 1

\* a + b of two i32 in a release build: the sum wraps around.
AddI32(a, b) ==
    IF a > 0 /\ b > 0 /\ a > I32Max - b THEN (a + I32Min) + (b + I32Min)
    ELSE IF a < 0 /\ b < 0 /\ a < I32Min - b THEN ((a + I32Max) + 1) + ((b + I32Max) + 1)
    ELSE a + b

Null == "<NULL>"

\* test.py: argtypes=(c_int, c_int) for add_i32, argtypes=(c_char_p,) for greet.
ArgVals == {-5, 5, 10, 23, I32Max}
CallArgs(fn) ==
    IF fn = "add_i32" THEN {<<a, b>> : a \in ArgVals, b \in ArgVals}
    ELSE {<<"Alice">>, <<Null>>}

\* Keyword arguments of a call, by name.
KwargSets == {{}, {"a"}}

\* The exported function fn of a library built from src, on native arguments.
NativeCall(src, fn, args) ==
    IF src = SrcAdd /\ fn = "add_i32"
    THEN AddI32(args[1], args[2])
    ELSE IF args[1] = Null THEN "Hello, stranger!"
    ELSE "Hello, " \o args[1] \o "!"

\* cfn(*args): the positional arguments as given.
Forward(args) == args

\* The bug of a wrapper that never looks at kwargs.
WrapperCall_IgnoreKwargs(cdll, fn, args, kwargs) ==
    [args |-> args, kwargs |-> kwargs, result |-> "returned",
     ret |-> <<NativeCall(cdll, fn, Forward(args))>>,
     native_calls |-> <<Forward(args)>>]

\* The bug of a wrapper that calls the native function and returns nothing.
WrapperCall_NoReturn(cdll, fn, args, kwargs) ==
    IF kwargs # {}
    THEN [args |-> args, kwargs |-> kwargs, result |-> "TypeError",
          ret |-> <<>>, native_calls |-> <<>>]
    ELSE [args |-> args, kwargs |-> kwargs, result |-> "returned",
          ret |-> <<>>, native_calls |-> <<Forward(args)>>]

\* def wrapper(*args, **kwargs)
WrapperCall(cdll, fn, args, kwargs) ==
    IF kwargs # {}
    THEN [args |-> args, kwargs |-> kwargs, result |-> "TypeError",
          ret |-> <<>>, native_calls |-> <<>>]
    ELSE [args |-> args, kwargs |-> kwargs, result |-> "returned",
          ret |-> <<NativeCall(cdll, fn, Forward(args))>>,
          native_calls |-> <<Forward(args)>>]

Invoke(p, args, kwargs) ==
    /\ pc[p] = "done"
    /\ outcome[p].kind = "Bound"
    /\ call' = WrapperCall(req[p].cdll, req[p].fn_name, args, kwargs)
    /\ UNCHANGED <<naming, platform, layout, fs, pc, req, outcome, prev>>

-----------------------------------------------------------------------------
(* One caller issuing bind requests one after the other, and calling the   *)
(* wrapper it got.                                                         *)

\* The next statement of the request p is running.
RequestStep(p) ==
    \/ EnsureCargo(p)
    \/ Mkdir(p)
    \/ CacheCheck(p)
    \/ WriteManifest(p)
    \/ WriteSrc(p)
    \/ Build(p)
    \/ Resolve(p)
    \/ Load(p)
    \/ GetSymbol(p)

Next ==
    \E p \in SeqProcs :
        \/ \E src \in Sources, fn \in FnNames, name \in NameArgs, cargo \in BOOLEAN :
               Begin(p, src, fn, name, cargo)
        \/ RequestStep(p)
        \/ \E args \in CallArgs(req[p].fn_name), kwargs \in KwargSets :
               Invoke(p, args, kwargs)

Spec == Init /\ [][Next]_vars

\* The code is synchronous: a request that has started runs every statement
\* up to its return or raise (cargo is taken to terminate). Nothing obliges
\* the caller to start a request or to call a wrapper.
FairSpec == Spec /\ \A p \in SeqProcs : WF_vars(RequestStep(p))

-----------------------------------------------------------------------------
(* A workspace that loses files between two requests. The workspaces live  *)
(* in the system temporary directory, where anything may remove them.      *)

Parts == {"srcdir", "src", "manifest", "target", "workspace"}

\* The workspace ws without one of the paths rust_jit keeps in it: src/ (and
\* lib.rs in it), src/lib.rs, Cargo.toml, target/, or the whole directory.
Remove(ws, part) ==
    CASE part = "srcdir"    -> [ws EXCEPT !.srcdir = FALSE, !.src = NoFile]
      [] part = "src"       -> [ws EXCEPT !.src = NoFile]
      [] part = "manifest"  -> [ws EXCEPT !.manifest = <<>>]
      [] part = "target"    -> [ws EXCEPT !.target = EmptyTarget]
      [] part = "workspace" -> AbsentWorkspace

\* Between two requests, a part of the workspace of the crate c is removed.
\* What the caller held of the request before is forgotten.
Damage(c, part) ==
    /\ \A p \in Procs : pc[p] \in {"idle", "done"}
    /\ fs[c].dir
    /\ fs' = [fs EXCEPT ![c] = Remove(fs[c], part)]
    /\ fs' # fs
    /\ pc' = [p \in Procs |-> "idle"]
    /\ req' = [p \in Procs |-> NoRequest]
    /\ outcome' = [p \in Procs |-> NoOutcome]
    /\ prev' = NoPrev
    /\ call' = NoCall
    /\ UNCHANGED <<naming, platform, layout>>

\* The requests all name one crate, so that one workspace is cached, damaged
\* and rebuilt in every order.
DamagedNames == {"foo"}

NextDamaged ==
    \/ \E p \in SeqProcs :
           \/ \E src \in Sources, fn \in FnNames, name \in DamagedNames, cargo \in BOOLEAN :
                  Begin(p, src, fn, name, cargo)
           \/ RequestStep(p)
    \/ \E c \in Crates, part \in Parts : Damage(c, part)

SpecDamaged == Init /\ [][NextDamaged]_vars

-----------------------------------------------------------------------------
(* One caller issuing bind requests with any signature and any extra cargo *)
(* flags.                                                                  *)

NextAnyArgs ==
    \E p \in SeqProcs :
        \/ \E src \in Sources, fn \in FnNames, name \in NameArgs, cargo \in BOOLEAN,
              sig \in Signatures, extra \in ExtraArgs :
               BeginReq(p, src, fn, name, cargo, sig, extra)
        \/ RequestStep(p)

SpecAnyArgs == Init /\ [][NextAnyArgs]_vars

-----------------------------------------------------------------------------
(* Two callers, each making one bind request. Nothing in rust_jit locks    *)
(* the workspace: the statements of the two requests interleave freely.    *)

\* The one request of the caller p.
BeginOnce(p, src, fn, name, cargo) ==
    /\ pc[p] = "idle"
    /\ Begin(p, src, fn, name, cargo)

NextTwo ==
    \E p \in Procs :
        \/ \E src \in Sources, fn \in FnNames, name \in NameArgs, cargo \in BOOLEAN :
               BeginOnce(p, src, fn, name, cargo)
        \/ RequestStep(p)

SpecTwo == Init /\ [][NextTwo]_vars

-----------------------------------------------------------------------------
(* _platform_libname on its own: any platform, any base name.              *)

BaseNames == Crates \cup {"add", "my_crate"}

NamingInit ==
    /\ platform \in Platforms
    /\ layout = {Primary}
    /\ fs = [c \in Crates |-> AbsentWorkspace]
    /\ pc = [p \in Procs |-> "idle"]
    /\ req = [p \in Procs |-> NoRequest]
    /\ outcome = [p \in Procs |-> NoOutcome]
    /\ prev = NoPrev
    /\ call = NoCall
    /\ naming \in {[basename |-> b, libname |-> NoValue] : b \in BaseNames}

\* libname = _platform_libname(crate_name)
ComputeLibname ==
    /\ naming.libname = NoValue
    /\ naming' = [naming EXCEPT !.libname = _platform_libname(platform, naming.basename)]
    /\ UNCHANGED <<platform, layout, fs, pc, req, outcome, prev, call>>

SpecNaming == NamingInit /\ [][ComputeLibname]_vars

-----------------------------------------------------------------------------
(* Properties.                                                             *)

Done(p) == pc[p] = "done"
Returned(p) == Done(p) /\ outcome[p].kind = "Bound"

\* The workspace at the start of the request p is running or has completed.
Workspace0(p) == req[p].fs0[req[p].crate_name]

\* FRESH for src: the cached source is src and the expected library exists.
Fresh(ws, src) == ws.src = src /\ ws.target[Primary] # NoFile

\* The workspace holds a successful build of src.
HoldsBuildOf(ws, src) == ws.src = src /\ \E l \in Locs : ws.target[l] = src

\* C1: a bind request that repeats, with the same source, symbol and crate
\* name, the request that has just returned a wrapper runs cargo zero times
\* and reuses the cached library, wherever the first request found it; from
\* an absent workspace the two requests run cargo exactly once together
\* (cargo being on PATH for both).
C1_Idempotent ==
    \A p \in SeqProcs :
        (Done(p) /\ prev.repeat /\ req[p].cargo_on_path) =>
            /\ req[p].builds = 0
            /\ ~req[p].rebuild
            /\ Returned(p)
            /\ (prev.absent0 => prev.builds + req[p].builds = 1)

\* C2: when the workspace of a crate name holds a successful build of s1 and
\* the next request (cargo being on PATH) brings another source, cargo runs
\* exactly once, and a wrapper it returns is loaded from a build of the new
\* source.
C2_Invalidation ==
    \A p \in SeqProcs : \A s1 \in Sources :
        (Done(p) /\ req[p].cargo_on_path /\ s1 # req[p].rust_src
                 /\ HoldsBuildOf(Workspace0(p), s1)) =>
            /\ req[p].builds = 1
            /\ (Returned(p) => req[p].cdll = req[p].rust_src)

C2_Witness ==
    \E p \in SeqProcs : \E s1 \in Sources :
        /\ Returned(p) /\ s1 # req[p].rust_src
        /\ HoldsBuildOf(Workspace0(p), s1)
        /\ req[p].builds = 1 /\ req[p].cdll = req[p].rust_src

\* C3: between requests, a workspace that is FRESH for a source holds at the
\* expected path a library built from that source; a wrapper is only ever
\* returned for a library built from the request's own source, and never for
\* a source that does not compile.
C3_CacheSound ==
    \A p \in SeqProcs :
        Done(p) =>
            /\ \A c \in Crates, s \in Sources :
                   Fresh(fs[c], s) => fs[c].target[Primary] = s
            /\ (Returned(p) => req[p].cdll = req[p].rust_src /\ Compiles(req[p].rust_src))

\* C4: without cargo on PATH a request fails with the toolchain-missing error
\* and nothing else happens: the disk is as it was when the request started,
\* cargo was not run and no library was loaded.
C4_ToolchainMissing ==
    \A p \in SeqProcs :
        (Done(p) /\ ~req[p].cargo_on_path) =>
            /\ outcome[p].kind = "ToolchainMissing"
            /\ fs = req[p].fs0
            /\ req[p].builds = 0
            /\ req[p].lib_path = NoValue /\ req[p].cdll = NoValue

C4_Witness ==
    \E p \in SeqProcs :
        /\ Done(p) /\ ~req[p].cargo_on_path
        /\ outcome[p].kind = "ToolchainMissing"
        /\ ~fs[req[p].crate_name].dir

\* The bytes of a message: its characters encoded, its literal pieces kept.
Bytes(bs) == [i \in 1..Len(bs) |-> [byte |-> bs[i]]]

RECURSIVE MsgBytes(_)
MsgBytes(msg) ==
    IF msg = <<>> THEN <<>>
    ELSE (IF "cp" \in DOMAIN Head(msg)
          THEN Bytes(EncodeUtf8(<<Head(msg).cp>>))
          ELSE <<Head(msg)>>)
         \o MsgBytes(Tail(msg))

ValidUtf8(bs) == EncodeUtf8(DecodeIgnore(bs)) = bs

\* cargo was run for the request of p and exited with a non-zero status.
BuildFailed(p) == req[p].builds > 0 /\ req[p].captured.returncode # 0

C6_SymbolNotFound ==
    \A p \in SeqProcs :
        Done(p) =>
            /\ (req[p].cdll # NoValue /\ req[p].fn_name \notin Exports(req[p].cdll)) =>
                   /\ outcome[p].kind = "SymbolNotFound"
                   /\ Contains(outcome[p].msg, <<Lit(req[p].fn_name), Lit(SymbolHint)>>)
            /\ outcome[p].kind = "SymbolNotFound" =>
                   /\ req[p].cdll # NoValue
                   /\ req[p].fn_name \notin Exports(req[p].cdll)

C6_Witness ==
    \E p \in SeqProcs :
        /\ Done(p) /\ outcome[p].kind = "SymbolNotFound"
        /\ ~req[p].rebuild
        /\ req[p].fn_name \notin Exports(req[p].cdll)

\* C7: a call of the wrapper with a keyword argument raises at once and the
\* native function is not called; a call with positional arguments only
\* calls the native function once, with those arguments in that order.
C7_PositionalOnly ==
    call.result # NoValue =>
        IF call.kwargs # {}
        THEN call.result = "TypeError" /\ call.native_calls = <<>> /\ call.ret = <<>>
        ELSE call.result = "returned" /\ call.native_calls = <<call.args>>

C7_Witness ==
    /\ call.kwargs # {} /\ call.result = "TypeError"
    /\ call.args # <<>> /\ call.native_calls = <<>>

\* a + b does not leave the 32-bit range.
Fits(a, b) ==
    /\ ~(a > 0 /\ b > 0 /\ a > I32Max - b)
    /\ ~(a < 0 /\ b < 0 /\ a < I32Min - b)

\* C8: a wrapper bound to add_i32 of the addition unit returns a + b on
\* (a, b) within range, 33 on (10, 23) and 0 on (-5, 5); any wrapper returns
\* what the exported symbol of the library it was loaded from returns on the
\* same arguments, after a build and after a cache hit.
C8_RoundTrip ==
    \A p \in SeqProcs :
        (Returned(p) /\ call.result = "returned") =>
            /\ Len(call.ret) = 1
            /\ req[p].fn_name \in Exports(req[p].cdll)
            /\ (req[p].rust_src = SrcAdd /\ req[p].fn_name = "add_i32") =>
                   /\ Fits(call.args[1], call.args[2]) =>
                          call.ret[1] = call.args[1] + call.args[2]
                   /\ call.args = <<10, 23>> => call.ret[1] = 33
                   /\ call.args = <<-5, 5>> => call.ret[1] = 0
            /\ (req[p].rust_src = SrcGreet /\ req[p].fn_name = "greet") =>
                   /\ call.args = <<"Alice">> => call.ret[1] = "Hello, Alice!"

C8_Witness ==
    \E p \in SeqProcs :
        /\ Returned(p) /\ ~req[p].rebuild
        /\ req[p].rust_src = SrcAdd /\ req[p].fn_name = "add_i32"
        /\ call.result = "returned"
        /\ call.args = <<10, 23>> /\ call.ret = <<33>>

\* C9: the library file name is a function of the platform and the base
\* name alone: lib<name>.so on linux, <name>.dll on win32, and lib<name>.so
\* again on every platform that is none of linux, darwin and win32.
C9_PlatformNaming ==
    naming.libname # NoValue =>
        LET b == naming.basename
            unix == "lib" \o b \o ".so"
        IN  /\ naming.libname \in {unix, "lib" \o b \o ".dylib", b \o ".dll"}
            /\ StartsWith(platform, Chars_linux) => naming.libname = unix
            /\ platform = Chars_win32 => naming.libname = b \o ".dll"
            /\ (/\ ~StartsWith(platform, Chars_linux)
                /\ platform # Chars_darwin
                /\ platform # Chars_win32) => naming.libname = unix

C9_Witness ==
    /\ platform = <<"w", "i", "n", "6", "4">>
    /\ naming.basename = "foo"
    /\ naming.libname = "libfoo.so"

Running(p) == pc[p] \notin {"idle", "done"}

BindOutcomes ==
    {"Bound", "ToolchainMissing", "CompilationFailed", "ArtifactNotFound",
     "SymbolNotFound"}

\* What a completed request has gone through, by outcome.
OutcomeStages(p) ==
    LET r == req[p]
        k == outcome[p].kind
    IN  /\ k \in BindOutcomes
        /\ k = "Bound" =>
               /\ r.cargo_on_path
               /\ IF r.rebuild
                  THEN r.builds = 1 /\ r.captured.returncode = 0
                  ELSE r.builds = 0 /\ CacheHit(Workspace0(p), r.rust_src)
               /\ r.lib_path \in Locs
               /\ r.cdll # NoValue /\ fs[r.crate_name].target[r.lib_path] = r.cdll
               /\ r.fn_name \in Exports(r.cdll)
        /\ k = "ToolchainMissing" =>
               r.builds = 0 /\ r.lib_path = NoValue /\ r.cdll = NoValue
        /\ k = "CompilationFailed" =>
               r.builds = 1 /\ r.lib_path = NoValue /\ r.cdll = NoValue
        /\ k = "ArtifactNotFound" =>
               r.builds = 1 /\ r.lib_path = NoValue /\ r.cdll = NoValue
        /\ k = "SymbolNotFound" => r.lib_path \in Locs /\ r.cdll # NoValue
        /\ k # "Bound" => call = NoCall

\* C10: a bind request ends, and ends in exactly one of the five outcomes;
\* cargo is run at most once for it, and a wrapper is returned only after the
\* cache hit or the successful build, the lookup of the library, its load
\* and the lookup of the symbol.
C10_OneOutcome ==
    /\ [](\A p \in SeqProcs :
            /\ req[p].builds <= 1
            /\ outcome[p].kind # NoValue <=> Done(p)
            /\ Done(p) => OutcomeStages(p))
    /\ \A p \in SeqProcs : Running(p) ~> Done(p)

C10_Witness ==
    \E p \in SeqProcs :
        /\ Done(p) /\ outcome[p].kind = "ArtifactNotFound"
        /\ req[p].builds = 1 /\ req[p].captured.returncode = 0


-----------------------------------------------------------------------------
\* The request p has got past the search for cargo.
PastToolchain(p) == req[p].cargo_on_path /\ pc[p] \notin {"idle", "ensure_cargo"}

\* The request p has made the choice between reuse and rebuild.
Decided(p) == req[p].cargo_on_path /\ pc[p] \notin {"idle", "ensure_cargo", "mkdir", "cache_check"}

\* C11: whatever the workspace held when the request started (absent, cached,
\* or with parts removed), a request that has cargo takes the reuse path, on
\* which cargo never runs, exactly when at its start the cached source file
\* existed with the requested text and a file was at the expected library
\* path; in every other case it rebuilds, and a completed rebuild has run
\* cargo.
C11_ReuseIff ==
    \A p \in SeqProcs :
        Decided(p) =>
            LET ws == Workspace0(p) IN
            /\ ~req[p].rebuild <=>
                   (ws.src # NoFile /\ ws.src = req[p].rust_src /\ ws.target[Primary] # NoFile)
            /\ ~req[p].rebuild => req[p].builds = 0
            /\ (req[p].rebuild /\ Done(p)) => req[p].builds = 1

\* A request has rebuilt a workspace that held a library at the expected path
\* and had lost its source file.
C11_Witness ==
    \E p \in SeqProcs :
        /\ Done(p) /\ req[p].cargo_on_path
        /\ req[p].rebuild /\ req[p].builds = 1
        /\ Workspace0(p).src = NoFile /\ Workspace0(p).target[Primary] # NoFile

-----------------------------------------------------------------------------
\* C12: a request that takes the reuse path writes nothing: from its start to
\* its end the manifest, the cached source and the build output, of its own
\* workspace and of every other, are what they were when it started; it
\* never runs cargo; and the library it loads is the file that was at the
\* expected path target/release/<libname> when it started.
C12_ReuseWritesNothing ==
    \A p \in SeqProcs :
        (Decided(p) /\ ~req[p].rebuild) =>
            /\ fs = req[p].fs0
            /\ req[p].builds = 0
            /\ req[p].lib_path = Primary
            /\ req[p].cdll \in {NoValue, Workspace0(p).target[Primary]}
            /\ Returned(p) => req[p].cdll = Workspace0(p).target[Primary]

\* A request has returned a wrapper on the reuse path from a workspace whose
\* manifest had been removed, and the manifest is still missing.
C12_Witness ==
    \E p \in SeqProcs :
        /\ Returned(p) /\ ~req[p].rebuild
        /\ Workspace0(p).manifest = <<>>
        /\ fs[req[p].crate_name].manifest = <<>>

-----------------------------------------------------------------------------
\* The workspace ws is ready for a build of src as the crate named crate: the
\* directories exist, the manifest names the crate as package and library
\* with the dynamic-library crate type, and the source file holds src.
ManifestNames(ws, crate) ==
    /\ ws.dir /\ ws.srcdir
    /\ Len(ws.manifest) = 1
    /\ ws.manifest[1].package_name = crate
    /\ ws.manifest[1].lib_name = crate
    /\ ws.manifest[1].crate_type = <<"cdylib">>

ReadyToBuild(ws, crate, src) == ManifestNames(ws, crate) /\ ws.src = src

\* Where the rebuild of the request p has got to.
RebuildStages(p) ==
    LET ws == fs[req[p].crate_name] IN
    /\ pc[p] = "write_manifest" => ws.dir
    /\ pc[p] = "write_src" => ManifestNames(ws, req[p].crate_name)
    /\ pc[p] = "build" => ReadyToBuild(ws, req[p].crate_name, req[p].rust_src)

\* One step of the request p, seen on the disk: the source file is written
\* only into a workspace that has its directories and its manifest, and
\* cargo runs only on a workspace that is ready for the requested source.
RebuildOrder(p) ==
    LET c == req[p].crate_name IN
    /\ (pc[p] = "write_src" /\ pc'[p] = "build") =>
           /\ ManifestNames(fs[c], c)
           /\ fs'[c] = [fs[c] EXCEPT !.src = req[p].rust_src]
    /\ (pc[p] # "idle" /\ req'[p].builds > req[p].builds) =>
           /\ ReadyToBuild(fs[c], c, req[p].rust_src)
           /\ req[p].builds = 0 /\ req[p].rebuild

\* C13: on the rebuild path the workspace directory and src/ exist before the
\* manifest is written, the manifest is written before the source, and cargo
\* runs only after both; whenever cargo runs, the source file on disk holds
\* the source text of the request and the manifest names the crate of the
\* request with the dynamic-library crate type; this holds for every
\* rebuild, whatever manifest the workspace had or had lost before.
C13_RebuildOrder ==
    /\ [](\A p \in SeqProcs : RebuildStages(p))
    /\ [][\A p \in SeqProcs : RebuildOrder(p)]_vars

\* A rebuild has run cargo in a workspace that had lost its manifest and its
\* src/ directory, and both are there again.
C13_Witness ==
    \E p \in SeqProcs :
        /\ Done(p) /\ req[p].builds = 1
        /\ Workspace0(p).dir /\ ~Workspace0(p).srcdir /\ Workspace0(p).manifest = <<>>
        /\ ReadyToBuild(fs[req[p].crate_name], req[p].crate_name, req[p].rust_src)

-----------------------------------------------------------------------------
\* C14: when a request that found cargo has ended, with a wrapper or with a
\* failed build, a library not found or a symbol not found, the one source
\* file of the workspace of its crate name holds the source text of that
\* request; in particular a request on a workspace that cached another
\* source has replaced it.
C14_Supersession ==
    \A p \in SeqProcs :
        (Done(p) /\ req[p].cargo_on_path) =>
            /\ outcome[p].kind \in {"Bound", "CompilationFailed", "ArtifactNotFound", "SymbolNotFound"}
            /\ fs[req[p].crate_name].src = req[p].rust_src

\* A request whose build failed has replaced the cached source of another
\* request by its own.
C14_Witness ==
    \E p \in SeqProcs :
        /\ Done(p) /\ outcome[p].kind = "CompilationFailed"
        /\ Workspace0(p).src \notin {NoFile, req[p].rust_src}
        /\ fs[req[p].crate_name].src = req[p].rust_src

-----------------------------------------------------------------------------
\* The request p has run cargo with success and has looked for the library.
Resolved(p) ==
    /\ req[p].cargo_on_path /\ req[p].builds = 1 /\ req[p].captured.returncode = 0
    /\ pc[p] \in {"load", "getattr", "done"}

\* C15: after a successful build, if a file is at target/release/<libname>
\* it is the library loaded; if not, and a file of this name is anywhere
\* below target/release, one of those files is the library loaded; if there
\* is none, the request ends with ArtifactNotFound, in a message that names
\* the library and the directory searched, having loaded no library,
\* returned no wrapper and run cargo once.
C15_Resolution ==
    \A p \in SeqProcs :
        Resolved(p) =>
            LET ws == fs[req[p].crate_name]
                found == {l \in Locs : ws.target[l] # NoFile}
            IN  IF Primary \in found
                THEN req[p].lib_path = Primary /\ outcome[p].kind # "ArtifactNotFound"
                ELSE IF found # {}
                THEN req[p].lib_path \in found /\ outcome[p].kind # "ArtifactNotFound"
                ELSE /\ Done(p) /\ outcome[p].kind = "ArtifactNotFound"
                     /\ Contains(outcome[p].msg,
                                 <<Lit(_platform_libname(platform, req[p].crate_name))>>)
                     /\ Contains(outcome[p].msg,
                                 <<Lit(TempDir(req[p].crate_name) \o "/" \o Primary)>>)
                     /\ req[p].lib_path = NoValue /\ req[p].cdll = NoValue
                     /\ req[p].builds = 1

\* A request has returned a wrapper on a library found below target/release
\* only.
C15_Witness ==
    \E p \in SeqProcs :
        /\ Resolved(p) /\ Returned(p)
        /\ fs[req[p].crate_name].target[Primary] = NoFile
        /\ req[p].lib_path = Nested

-----------------------------------------------------------------------------
\* The workspace directory exists and src/, src/lib.rs, Cargo.toml or the
\* build output is missing.
Corrupted(ws) ==
    /\ ws.dir
    /\ \/ ~ws.srcdir
       \/ ws.src = NoFile
       \/ ws.manifest = <<>>
       \/ ws.target = EmptyTarget

\* C16: a request that has cargo and starts on a workspace whose directory
\* exists and that lacks src/, the source file, the manifest or the build
\* output, in any combination, does not fail for that: it rebuilds, so that
\* the directories, the manifest and the source are there again, runs cargo
\* once, and after a successful build the workspace is fresh for the
\* requested source (the cached source is the requested one and the library
\* is at the expected path).
C16_Recovery ==
    \A p \in SeqProcs :
        (Done(p) /\ req[p].cargo_on_path /\ Corrupted(Workspace0(p))) =>
            /\ outcome[p].kind # "OSError"
            /\ req[p].rebuild /\ req[p].builds = 1
            /\ ReadyToBuild(fs[req[p].crate_name], req[p].crate_name, req[p].rust_src)
            /\ req[p].captured.returncode = 0 =>
                   Fresh(fs[req[p].crate_name], req[p].rust_src)

-----------------------------------------------------------------------------
\* The request p was given no crate name.
DefaultNamed(p) == req[p].crate_name = CrateName(req[p].rust_src, "")

\* What a request for the symbol fn of src ends with, and how many times it
\* runs cargo, when it runs alone on the workspace ws with a toolchain of
\* layout lay.
Alone(ws, lay, src, fn) ==
    LET after == [l \in Locs |-> IF l \in lay THEN src ELSE ws.target[l]]
        lib == IF after[Primary] # NoFile THEN after[Primary] ELSE after[Nested]
        Bind(file) == IF fn \in Exports(file) THEN "Bound" ELSE "SymbolNotFound"
    IN  IF ws.src = src /\ ws.target[Primary] # NoFile
        THEN [kind |-> Bind(ws.target[Primary]), builds |-> 0]
        ELSE IF ~Compiles(src) THEN [kind |-> "CompilationFailed", builds |-> 1]
        ELSE IF lib = NoFile THEN [kind |-> "ArtifactNotFound", builds |-> 1]
        ELSE [kind |-> Bind(lib), builds |-> 1]

\* C17: a request touches the workspace of its own crate name only: every
\* other workspace is, all along the request, what it was at its start, and
\* the outcome and the number of cargo runs of the request are those of the
\* same request running alone on its workspace. Without a crate name the
\* workspace is named after the source text alone, so that two sources have
\* two workspaces and do not invalidate each other's cache: a request for a
\* source that was built before, made after a request for another source
\* was built, runs cargo zero times (requests alternating between two
\* sources compile each source once).
C17_Isolation ==
    \A p \in SeqProcs :
        /\ pc[p] # "idle" =>
               \A c \in Crates \ {req[p].crate_name} : fs[c] = req[p].fs0[c]
        /\ (Done(p) /\ req[p].cargo_on_path) =>
               LET alone == Alone(Workspace0(p), layout, req[p].rust_src, req[p].fn_name)
               IN  outcome[p].kind = alone.kind /\ req[p].builds = alone.builds
        /\ (pc[p] # "idle" /\ DefaultNamed(p)) =>
               \A s \in Sources : CrateName(s, "") = req[p].crate_name <=> s = req[p].rust_src
        /\ ( /\ Done(p) /\ req[p].cargo_on_path /\ DefaultNamed(p)
             /\ HoldsBuildOf(Workspace0(p), req[p].rust_src)
             /\ \E s \in Sources \ {req[p].rust_src} :
                    HoldsBuildOf(req[p].fs0[CrateName(s, "")], s) )
           => req[p].builds = 0

-----------------------------------------------------------------------------
\* C18: the cache key is the crate name and the source text, nothing else: a
\* request that follows a request with the same crate name and source which
\* loaded its library, and differs from it in the symbol, the signature or
\* the extra cargo flags, takes the reuse path and runs cargo zero times;
\* and the command of every cargo run is `cargo build --release`, whatever
\* the extra flags.
C18_CacheKey ==
    \A p \in SeqProcs :
        /\ (Done(p) /\ req[p].cargo_on_path /\ prev.same_unit /\ prev.changed) =>
               ~req[p].rebuild /\ req[p].builds = 0
        /\ req[p].builds > 0 => req[p].build_cmd = <<"cargo", "build", "--release">>

-----------------------------------------------------------------------------
\* The request p has returned a wrapper on a library that was not built from
\* the source text of p.
BoundToOther(p) == Returned(p) /\ req[p].cdll # req[p].rust_src

\* The two requests are done, and had one crate name and two source texts.
SameNameTwoSources ==
    /\ \A p \in Procs : Done(p) /\ req[p].cargo_on_path
    /\ req["p1"].crate_name = req["p2"].crate_name
    /\ req["p1"].rust_src # req["p2"].rust_src

=============================================================================
